---------------------------- MODULE Spec2Model ----------------------------
(***************************************************************************)
(* A model of the Protocol Buffers runtime core of prost:                  *)
(*   - the Message bindings of the wrapper types (src/src/types.rs),       *)
(*   - the UTF-8 checked byte string ByteStr (src/src/types.rs, mod str),  *)
(*   - the conformance driver (src/proto-conformance/src/main.rs).         *)
(* Integers wider than TLC's are kept as sets of bit positions, so that    *)
(* nothing is lost at the varint boundaries.                               *)
(***************************************************************************)
EXTENDS Integers, Sequences, FiniteSets, TLC

(***************************************************************************)
(* Bounds of the model.                                                    *)
(***************************************************************************)
\* The recursion limit of a DecodeContext (100 in the crate), scaled down.
MaxDepth == 2
\* The longest text, in characters, a String or ByteStr value holds.
MaxChars == 1
\* The longest byte vector a Vec<u8> / Bytes value holds.
MaxBytesLen == 1
\* The longest raw byte buffer handed to ByteStr::from_utf8.
MaxRawLen == 2
\* The most request frames the harness writes to the driver's input.
MaxFrames == 2

(***************************************************************************)
(* Bit vectors.  A u32, i32, f32, u64, i64 or f64 is the set of the        *)
(* positions of its one bits, 1 for the least significant; {} is zero and  *)
(* 1..64 is u64::MAX or the i64 -1.                                        *)
(***************************************************************************)
Pow2(k) == 2 ^ k

BitsOf(S, w) == S \cap (1..w)

Bit(v, i) == IF i \in v THEN 1 ELSE 0

\* A number below 2^31 as a bit vector of width w.
FromNat(n, w) == {i \in 1..w : i <= 31 /\ (n \div Pow2(i - 1)) % 2 = 1}

RECURSIVE SumBits(_, _, _)
SumBits(v, i, k) ==
  IF k = 0 THEN 0 ELSE Bit(v, i) + 2 * SumBits(v, i + 1, k - 1)

\* The k bits of v from bit i on, as a number (k <= 30).
Slice(v, i, k) == SumBits(v, i, k)

\* `value as u64` of a u32: zero extension.
ZeroExtend(v) == v

\* `value as u64` of an i32: sign extension.
SignExtend(v) == IF 32 \in v THEN v \cup (33..64) ELSE v

\* `value as u32` / `value as i32` of a u64: truncation.
Truncate32(v) == {i \in v : i <= 32}

\* value >> 7
Shr7(v) == {i - 7 : i \in {j \in v : j > 7}}

IsZeroBits(v) == v = {}

\* A u64 as a number, when it is below 2^30 (lengths, keys).
IsSmall(v) == \A i \in v : i <= 30
ToNat(v) == SumBits(v, 1, 30)

(***************************************************************************)
(* Varints (encoding.rs, not among the source files: modelled after the    *)
(* wire format the specification describes in 4.1).                        *)
(***************************************************************************)
\* Seven bits a byte, least significant group first, the high bit set on all
\* but the last.
RECURSIVE encode_varint(_)
encode_varint(v) ==
  IF \A i \in v : i <= 7
    THEN << Slice(v, 1, 7) >>
    ELSE << Slice(v, 1, 7) + 128 >> \o encode_varint(Shr7(v))

\* ((value | 1).leading_zeros() ^ 63) is the index of the highest set bit.
HighestBit(v) ==
  LET S == v \cup {1}
  IN  (CHOOSE i \in S : \A j \in S : j <= i) - 1

encoded_len_varint(v) == (HighestBit(v) * 9 + 73) \div 64

\* Reads up to ten bytes; the tenth may carry one bit only.
RECURSIVE DecodeVarintFrom(_, _, _)
DecodeVarintFrom(buf, count, acc) ==
  IF count >= 10 \/ count >= Len(buf)
    THEN [ok |-> FALSE, value |-> acc, rest |-> <<>>]
    ELSE LET byte == buf[count + 1]
             low  == byte % 128
             acc2 == acc \cup {count * 7 + j : j \in
                        {x \in 1..7 : (low \div Pow2(x - 1)) % 2 = 1}}
         IN  IF byte <= 127
               THEN IF count = 9 /\ byte >= 2
                      THEN [ok |-> FALSE, value |-> acc, rest |-> <<>>]
                      ELSE [ok |-> TRUE, value |-> acc2,
                            rest |-> SubSeq(buf, count + 2, Len(buf))]
               ELSE DecodeVarintFrom(buf, count + 1, acc2)

decode_varint(buf) == DecodeVarintFrom(buf, 0, {})

(***************************************************************************)
(* Bytes and UTF-8 (core::str of the standard library).                    *)
(***************************************************************************)
LeBytes(v, n) == [k \in 1..n |-> Slice(v, 8 * (k - 1) + 1, 8)]

FromLeBytes(bs, n) ==
  {i \in 1..(8 * n) : (bs[((i - 1) \div 8) + 1] \div Pow2((i - 1) % 8)) % 2 = 1}

Drop(buf, n) == SubSeq(buf, n + 1, Len(buf))
Take(buf, n) == SubSeq(buf, 1, n)

RECURSIVE SeqsUpTo(_, _)
SeqsUpTo(S, n) ==
  IF n = 0 THEN {<<>>}
  ELSE LET R == SeqsUpTo(S, n - 1)
       IN  R \cup {Append(r, x) : r \in {q \in R : Len(q) = n - 1}, x \in S}

\* char::encode_utf8.
Utf8EncodeChar(cp) ==
  IF cp < 128 THEN << cp >>
  ELSE IF cp < 2048 THEN << 192 + (cp \div 64), 128 + (cp % 64) >>
  ELSE IF cp < 65536
    THEN << 224 + (cp \div 4096), 128 + ((cp \div 64) % 64), 128 + (cp % 64) >>
    ELSE << 240 + (cp \div 262144), 128 + ((cp \div 4096) % 64),
            128 + ((cp \div 64) % 64), 128 + (cp % 64) >>

\* The bytes of a String holding the characters of text.
RECURSIVE Utf8Encode(_)
Utf8Encode(text) ==
  IF text = <<>> THEN <<>>
  ELSE Utf8EncodeChar(Head(text)) \o Utf8Encode(Tail(text))

IsCont(b) == b >= 128 /\ b <= 191

\* The width of the well-formed sequence that starts buf, 0 when there is none.
Utf8Width(buf) ==
  LET n  == Len(buf)
      b1 == buf[1]
  IN  IF b1 <= 127 THEN 1
      ELSE IF b1 >= 194 /\ b1 <= 223
        THEN IF n >= 2 /\ IsCont(buf[2]) THEN 2 ELSE 0
      ELSE IF b1 >= 224 /\ b1 <= 239
        THEN IF /\ n >= 3
                /\ IsCont(buf[2])
                /\ IsCont(buf[3])
                /\ (b1 = 224 => buf[2] >= 160)
                /\ (b1 = 237 => buf[2] <= 159)
               THEN 3 ELSE 0
      ELSE IF b1 >= 240 /\ b1 <= 244
        THEN IF /\ n >= 4
                /\ IsCont(buf[2])
                /\ IsCont(buf[3])
                /\ IsCont(buf[4])
                /\ (b1 = 240 => buf[2] >= 144)
                /\ (b1 = 244 => buf[2] <= 143)
               THEN 4 ELSE 0
      ELSE 0

\* core::str::from_utf8(buf).is_ok()
RECURSIVE IsUtf8(_)
IsUtf8(buf) ==
  IF buf = <<>> THEN TRUE
  ELSE LET w == Utf8Width(buf)
       IN  IF w = 0 THEN FALSE ELSE IsUtf8(Drop(buf, w))

\* The character a well-formed sequence of width w encodes.
Utf8Char(buf, w) ==
  IF w = 1 THEN buf[1]
  ELSE IF w = 2 THEN (buf[1] - 192) * 64 + (buf[2] - 128)
  ELSE IF w = 3
    THEN (buf[1] - 224) * 4096 + (buf[2] - 128) * 64 + (buf[3] - 128)
    ELSE (buf[1] - 240) * 262144 + (buf[2] - 128) * 4096
           + (buf[3] - 128) * 64 + (buf[4] - 128)

\* The characters a str over valid UTF-8 bytes shows.  Over other bytes the
\* view is undefined; U+FFFD stands for what it shows there, and no checked
\* buffer of the model gets there.
RECURSIVE StrChars(_)
StrChars(buf) ==
  IF buf = <<>> THEN <<>>
  ELSE LET w == Utf8Width(buf)
       IN  IF w = 0
             THEN << 65533 >> \o StrChars(Drop(buf, 1))
             ELSE << Utf8Char(buf, w) >> \o StrChars(Drop(buf, w))

\* Well-formedness by the definition of UTF-8: the bytes are the shortest-form
\* encoding of a sequence of Unicode scalar values.
LeadWidth(b) ==
  IF b <= 127 THEN 1
  ELSE IF b >= 192 /\ b <= 223 THEN 2
  ELSE IF b >= 224 /\ b <= 239 THEN 3
  ELSE IF b >= 240 /\ b <= 247 THEN 4
  ELSE 0

IsScalarValue(cp) == cp >= 0 /\ cp <= 1114111 /\ ~(cp >= 55296 /\ cp <= 57343)

RECURSIVE EncodesScalars(_)
EncodesScalars(buf) ==
  IF buf = <<>> THEN TRUE
  ELSE LET w == LeadWidth(buf[1])
       IN  /\ w > 0
           /\ w <= Len(buf)
           /\ \A i \in 2..w : IsCont(buf[i])
           /\ IsScalarValue(Utf8Char(buf, w))
           /\ Utf8EncodeChar(Utf8Char(buf, w)) = Take(buf, w)
           /\ EncodesScalars(Drop(buf, w))

(***************************************************************************)
(* Keys, the decode context and skip_field (encoding.rs; 4.1, 4.2).        *)
(***************************************************************************)
Varint          == 0
SixtyFourBit    == 1
LengthDelimited == 2
StartGroup      == 3
EndGroup        == 4
ThirtyTwoBit    == 5

Fail(buf) == [ok |-> FALSE, rest |-> buf]
Done(buf) == [ok |-> TRUE, rest |-> buf]

encode_key(tag, wire_type) == encode_varint(FromNat(tag * 8 + wire_type, 64))

key_len(tag) == encoded_len_varint(FromNat(tag * 8, 64))

decode_key(buf) ==
  LET d  == decode_varint(buf)
      wt == Slice(d.value, 1, 3)
      tg == Slice(d.value, 4, 29)
      bad == [ok |-> FALSE, tag |-> 0, wire_type |-> 0, rest |-> buf]
  IN  IF ~d.ok THEN bad
      ELSE IF \E i \in d.value : i > 32 THEN bad
      ELSE IF wt > 5 THEN bad
      ELSE IF tg < 1 THEN bad
      ELSE [ok |-> TRUE, tag |-> tg, wire_type |-> wt, rest |-> d.rest]

\* DecodeContext::limit_reached and enter_recursion, on the remaining depth.
limit_reached(ctx) == ctx = 0
enter_recursion(ctx) == ctx - 1

\* Advance over len bytes, a buffer underflow when they are not there.
Advance(len, buf) ==
  IF ~IsSmall(len) \/ ToNat(len) > Len(buf)
    THEN Fail(buf)
    ELSE Done(Drop(buf, ToNat(len)))

RECURSIVE skip_field(_, _, _, _)
RECURSIVE SkipGroup(_, _, _)
SkipGroup(tag, buf, ctx) ==
  LET k == decode_key(buf)
  IN  IF ~k.ok THEN Fail(buf)
      ELSE IF k.wire_type = EndGroup
        THEN IF k.tag # tag THEN Fail(buf) ELSE Done(k.rest)
        ELSE LET r == skip_field(k.wire_type, k.tag, k.rest, enter_recursion(ctx))
             IN  IF ~r.ok THEN Fail(buf) ELSE SkipGroup(tag, r.rest, ctx)

skip_field(wire_type, tag, buf, ctx) ==
  IF limit_reached(ctx) THEN Fail(buf)
  ELSE IF wire_type = Varint
    THEN LET d == decode_varint(buf)
         IN  IF d.ok THEN Done(d.rest) ELSE Fail(buf)
  ELSE IF wire_type = ThirtyTwoBit THEN Advance(FromNat(4, 64), buf)
  ELSE IF wire_type = SixtyFourBit THEN Advance(FromNat(8, 64), buf)
  ELSE IF wire_type = LengthDelimited
    THEN LET d == decode_varint(buf)
         IN  IF d.ok THEN Advance(d.value, d.rest) ELSE Fail(buf)
  ELSE IF wire_type = StartGroup THEN SkipGroup(tag, buf, ctx)
  ELSE Fail(buf)

(***************************************************************************)
(* ByteStr (types.rs, mod str).  A ByteStr is its bytes; the Checked or    *)
(* Unchecked marker is the type it is used at.                             *)
(***************************************************************************)
\* A mutant: the checked constructor without its validation.
from_utf8_unvalidated(buf) == [ok |-> TRUE, buf |-> buf]

\* ByteStr::from_utf8: Err(Utf8Error) and no ByteStr, or Ok(ByteStr { buf }).
from_utf8(buf) ==
  IF IsUtf8(buf)
    THEN [ok |-> TRUE, buf |-> buf]
    ELSE [ok |-> FALSE, buf |-> <<>>]

\* ByteStr<Unchecked>::from_utf8: no validation, no failure.
from_utf8_unchecked(buf) == buf

\* From<String>: the String's own bytes, which are UTF-8 by its invariant.
from_string(text) == Utf8Encode(text)

\* From<&str>: Self::from(value.to_string()).
from_str(text) == from_string(text)

byte_str_default == <<>>

byte_str_len(self) == Len(self)

byte_str_is_empty(self) == byte_str_len(self) = 0

byte_str_clear(self) == <<>>

byte_str_clone(self) == self

as_bytes(self) == self

\* from_utf8_unchecked(&self.buf): the characters of the bytes.
as_str(self) == StrChars(self)

(***************************************************************************)
(* The field primitives of each scalar kind (encoding.rs; 4.1).  A merge   *)
(* returns whether it succeeded, the value after it and the bytes left.    *)
(***************************************************************************)
MergeOk(v, buf)  == [ok |-> TRUE, val |-> v, rest |-> buf]
MergeErr(v, buf) == [ok |-> FALSE, val |-> v, rest |-> buf]

check_wire_type(expected, actual) == expected = actual

varint_encode(tag, v) == encode_key(tag, Varint) \o encode_varint(v)

varint_encoded_len(tag, v) == key_len(tag) + encoded_len_varint(v)

bool_encode(tag, value) ==
  varint_encode(tag, IF value THEN FromNat(1, 64) ELSE FromNat(0, 64))

bool_merge(wire_type, value, buf, ctx) ==
  LET d == decode_varint(buf)
  IN  IF check_wire_type(Varint, wire_type) /\ d.ok
        THEN MergeOk(~IsZeroBits(d.value), d.rest)
        ELSE MergeErr(value, buf)

uint32_encode(tag, value) == varint_encode(tag, ZeroExtend(value))

uint32_encoded_len(tag, value) == varint_encoded_len(tag, ZeroExtend(value))

uint32_merge(wire_type, value, buf, ctx) ==
  LET d == decode_varint(buf)
  IN  IF check_wire_type(Varint, wire_type) /\ d.ok
        THEN MergeOk(Truncate32(d.value), d.rest)
        ELSE MergeErr(value, buf)

uint64_encode(tag, value) == varint_encode(tag, value)

uint64_encoded_len(tag, value) == varint_encoded_len(tag, value)

uint64_merge(wire_type, value, buf, ctx) ==
  LET d == decode_varint(buf)
  IN  IF check_wire_type(Varint, wire_type) /\ d.ok
        THEN MergeOk(d.value, d.rest)
        ELSE MergeErr(value, buf)

int32_encode(tag, value) == varint_encode(tag, SignExtend(value))

int32_encoded_len(tag, value) == varint_encoded_len(tag, SignExtend(value))

int32_merge(wire_type, value, buf, ctx) ==
  LET d == decode_varint(buf)
  IN  IF check_wire_type(Varint, wire_type) /\ d.ok
        THEN MergeOk(Truncate32(d.value), d.rest)
        ELSE MergeErr(value, buf)

int64_encode(tag, value) == varint_encode(tag, value)

int64_encoded_len(tag, value) == varint_encoded_len(tag, value)

int64_merge(wire_type, value, buf, ctx) ==
  LET d == decode_varint(buf)
  IN  IF check_wire_type(Varint, wire_type) /\ d.ok
        THEN MergeOk(d.value, d.rest)
        ELSE MergeErr(value, buf)

float_encode(tag, value) == encode_key(tag, ThirtyTwoBit) \o LeBytes(value, 4)

float_encoded_len(tag, value) == key_len(tag) + 4

float_merge(wire_type, value, buf, ctx) ==
  IF check_wire_type(ThirtyTwoBit, wire_type) /\ Len(buf) >= 4
    THEN MergeOk(FromLeBytes(Take(buf, 4), 4), Drop(buf, 4))
    ELSE MergeErr(value, buf)

double_encode(tag, value) == encode_key(tag, SixtyFourBit) \o LeBytes(value, 8)

double_encoded_len(tag, value) == key_len(tag) + 8

double_merge(wire_type, value, buf, ctx) ==
  IF check_wire_type(SixtyFourBit, wire_type) /\ Len(buf) >= 8
    THEN MergeOk(FromLeBytes(Take(buf, 8), 8), Drop(buf, 8))
    ELSE MergeErr(value, buf)

bytes_encode(tag, value) ==
  encode_key(tag, LengthDelimited)
    \o encode_varint(FromNat(Len(value), 64)) \o value

bytes_encoded_len(tag, value) ==
  key_len(tag) + encoded_len_varint(FromNat(Len(value), 64)) + Len(value)

\* The length-delimited payload replaces the value.
bytes_merge(wire_type, value, buf, ctx) ==
  LET d == decode_varint(buf)
  IN  IF /\ check_wire_type(LengthDelimited, wire_type)
         /\ d.ok
         /\ IsSmall(d.value)
         /\ ToNat(d.value) <= Len(d.rest)
        THEN MergeOk(Take(d.rest, ToNat(d.value)), Drop(d.rest, ToNat(d.value)))
        ELSE MergeErr(value, buf)

bytes_merge_one_copy(wire_type, value, buf, ctx) ==
  bytes_merge(wire_type, value, buf, ctx)

string_encode(tag, value) == bytes_encode(tag, value)

string_encoded_len(tag, value) == bytes_encoded_len(tag, value)

\* The bytes are copied into the String and validated; on any error the
\* String is left empty.
string_merge(wire_type, value, buf, ctx) ==
  LET r == bytes_merge_one_copy(wire_type, value, buf, ctx)
  IN  IF r.ok /\ IsUtf8(r.val) THEN r ELSE MergeErr(<<>>, buf)

\* The checked constructor decides whether the field is accepted.
byte_str_merge(wire_type, value, buf, ctx) ==
  LET r == bytes_merge(wire_type, <<>>, buf, ctx)
      c == from_utf8(r.val)
  IN  IF r.ok /\ c.ok THEN MergeOk(c.buf, r.rest) ELSE MergeErr(value, buf)

byte_str_unchecked_merge(wire_type, value, buf, ctx) ==
  LET r == bytes_merge(wire_type, <<>>, buf, ctx)
  IN  IF r.ok THEN MergeOk(from_utf8_unchecked(r.val), r.rest)
      ELSE MergeErr(value, buf)

(***************************************************************************)
(* The Message bindings of the wrapper types (types.rs).  merge_field      *)
(* takes its DecodeContext by value: the record it returns carries the     *)
(* value, the bytes left, which path took the field and the context the    *)
(* caller still holds after the call.                                      *)
(***************************************************************************)
\* `*self != 0.0`: false for +0.0 and -0.0, true for everything else, NaN too.
FloatNeZero(v, w) == v \ {w} # {}

Merged(r, ctx) ==
  [ok |-> r.ok, val |-> r.val, rest |-> r.rest, ctx |-> ctx, route |-> "merge"]

Skipped(r, self, ctx) ==
  [ok |-> r.ok, val |-> self, rest |-> r.rest, ctx |-> ctx, route |-> "skip"]

\* impl Message for bool
\* A mutant: the context is entered in place on the skip path and not restored.
merge_field_bool_shared_ctx(self, tag, wire_type, buf, ctx) ==
  IF tag = 1
    THEN Merged(bool_merge(wire_type, self, buf, ctx), ctx)
    ELSE Skipped(skip_field(wire_type, tag, buf, ctx), self, enter_recursion(ctx))

\* A mutant: the hard-coded length counts the value byte only.
encoded_len_bool_short(self) ==
  IF self THEN 1 ELSE 0

encode_raw_bool(self) ==
  IF self THEN bool_encode(1, self) ELSE <<>>

merge_field_bool(self, tag, wire_type, buf, ctx) ==
  IF tag = 1
    THEN Merged(bool_merge(wire_type, self, buf, ctx), ctx)
    ELSE Skipped(skip_field(wire_type, tag, buf, ctx), self, ctx)

encoded_len_bool(self) ==
  IF self THEN 2 ELSE 0

clear_bool(self) == FALSE

\* impl Message for u32
\* A mutant: the field is emitted whatever the value.
encode_raw_u32_always(self) == uint32_encode(1, self)

\* A mutant: every tag is handed to the primitive merge.
merge_field_u32_any_tag(self, tag, wire_type, buf, ctx) ==
  Merged(uint32_merge(wire_type, self, buf, ctx), ctx)

encode_raw_u32(self) ==
  IF ~IsZeroBits(self) THEN uint32_encode(1, self) ELSE <<>>

merge_field_u32(self, tag, wire_type, buf, ctx) ==
  IF tag = 1
    THEN Merged(uint32_merge(wire_type, self, buf, ctx), ctx)
    ELSE Skipped(skip_field(wire_type, tag, buf, ctx), self, ctx)

encoded_len_u32(self) ==
  IF ~IsZeroBits(self) THEN uint32_encoded_len(1, self) ELSE 0

clear_u32(self) == BitsOf({}, 32)

\* impl Message for u64
encode_raw_u64(self) ==
  IF ~IsZeroBits(self) THEN uint64_encode(1, self) ELSE <<>>

merge_field_u64(self, tag, wire_type, buf, ctx) ==
  IF tag = 1
    THEN Merged(uint64_merge(wire_type, self, buf, ctx), ctx)
    ELSE Skipped(skip_field(wire_type, tag, buf, ctx), self, ctx)

encoded_len_u64(self) ==
  IF ~IsZeroBits(self) THEN uint64_encoded_len(1, self) ELSE 0

clear_u64(self) == BitsOf({}, 64)

\* impl Message for i32
encode_raw_i32(self) ==
  IF ~IsZeroBits(self) THEN int32_encode(1, self) ELSE <<>>

merge_field_i32(self, tag, wire_type, buf, ctx) ==
  IF tag = 1
    THEN Merged(int32_merge(wire_type, self, buf, ctx), ctx)
    ELSE Skipped(skip_field(wire_type, tag, buf, ctx), self, ctx)

encoded_len_i32(self) ==
  IF ~IsZeroBits(self) THEN int32_encoded_len(1, self) ELSE 0

clear_i32(self) == BitsOf({}, 32)

\* impl Message for i64
\* A mutant: `> 0` in place of `!= 0`.
encode_raw_i64_positive(self) ==
  IF ~IsZeroBits(self) /\ 64 \notin self THEN int64_encode(1, self) ELSE <<>>

encode_raw_i64(self) ==
  IF ~IsZeroBits(self) THEN int64_encode(1, self) ELSE <<>>

merge_field_i64(self, tag, wire_type, buf, ctx) ==
  IF tag = 1
    THEN Merged(int64_merge(wire_type, self, buf, ctx), ctx)
    ELSE Skipped(skip_field(wire_type, tag, buf, ctx), self, ctx)

encoded_len_i64(self) ==
  IF ~IsZeroBits(self) THEN int64_encoded_len(1, self) ELSE 0

clear_i64(self) == BitsOf({}, 64)

\* impl Message for f32
encode_raw_f32(self) ==
  IF FloatNeZero(self, 32) THEN float_encode(1, self) ELSE <<>>

merge_field_f32(self, tag, wire_type, buf, ctx) ==
  IF tag = 1
    THEN Merged(float_merge(wire_type, self, buf, ctx), ctx)
    ELSE Skipped(skip_field(wire_type, tag, buf, ctx), self, ctx)

encoded_len_f32(self) ==
  IF FloatNeZero(self, 32) THEN float_encoded_len(1, self) ELSE 0

clear_f32(self) == BitsOf({}, 32)

\* impl Message for f64
encode_raw_f64(self) ==
  IF FloatNeZero(self, 64) THEN double_encode(1, self) ELSE <<>>

merge_field_f64(self, tag, wire_type, buf, ctx) ==
  IF tag = 1
    THEN Merged(double_merge(wire_type, self, buf, ctx), ctx)
    ELSE Skipped(skip_field(wire_type, tag, buf, ctx), self, ctx)

encoded_len_f64(self) ==
  IF FloatNeZero(self, 64) THEN double_encoded_len(1, self) ELSE 0

clear_f64(self) == BitsOf({}, 64)

\* impl Message for String
encode_raw_String(self) ==
  IF self # <<>> THEN string_encode(1, self) ELSE <<>>

merge_field_String(self, tag, wire_type, buf, ctx) ==
  IF tag = 1
    THEN Merged(string_merge(wire_type, self, buf, ctx), ctx)
    ELSE Skipped(skip_field(wire_type, tag, buf, ctx), self, ctx)

encoded_len_String(self) ==
  IF self # <<>> THEN string_encoded_len(1, self) ELSE 0

clear_String(self) == <<>>

\* impl Message for Vec<u8>
encode_raw_VecU8(self) ==
  IF self # <<>> THEN bytes_encode(1, self) ELSE <<>>

merge_field_VecU8(self, tag, wire_type, buf, ctx) ==
  IF tag = 1
    THEN Merged(bytes_merge_one_copy(wire_type, self, buf, ctx), ctx)
    ELSE Skipped(skip_field(wire_type, tag, buf, ctx), self, ctx)

encoded_len_VecU8(self) ==
  IF self # <<>> THEN bytes_encoded_len(1, self) ELSE 0

clear_VecU8(self) == <<>>

\* impl Message for Bytes
encode_raw_Bytes(self) ==
  IF self # <<>> THEN bytes_encode(1, self) ELSE <<>>

merge_field_Bytes(self, tag, wire_type, buf, ctx) ==
  IF tag = 1
    THEN Merged(bytes_merge(wire_type, self, buf, ctx), ctx)
    ELSE Skipped(skip_field(wire_type, tag, buf, ctx), self, ctx)

encoded_len_Bytes(self) ==
  IF self # <<>> THEN bytes_encoded_len(1, self) ELSE 0

clear_Bytes(self) == <<>>

\* impl Message for ByteStr
encode_raw_ByteStr(self) ==
  IF ~byte_str_is_empty(self) THEN bytes_encode(1, self) ELSE <<>>

merge_field_ByteStr(self, tag, wire_type, buf, ctx) ==
  IF tag = 1
    THEN Merged(byte_str_merge(wire_type, self, buf, ctx), ctx)
    ELSE Skipped(skip_field(wire_type, tag, buf, ctx), self, ctx)

encoded_len_ByteStr(self) ==
  IF ~byte_str_is_empty(self) THEN bytes_encoded_len(1, self) ELSE 0

clear_ByteStr(self) == byte_str_clear(self)

\* impl Message for ByteStr<Unchecked>
encode_raw_ByteStrUnchecked(self) ==
  IF ~byte_str_is_empty(self) THEN bytes_encode(1, self) ELSE <<>>

merge_field_ByteStrUnchecked(self, tag, wire_type, buf, ctx) ==
  IF tag = 1
    THEN Merged(byte_str_unchecked_merge(wire_type, self, buf, ctx), ctx)
    ELSE Skipped(skip_field(wire_type, tag, buf, ctx), self, ctx)

encoded_len_ByteStrUnchecked(self) ==
  IF ~byte_str_is_empty(self) THEN bytes_encoded_len(1, self) ELSE 0

clear_ByteStrUnchecked(self) == byte_str_clear(self)

\* impl Message for (): google.protobuf.Empty
encode_raw_Unit(self) == <<>>

merge_field_Unit(self, tag, wire_type, buf, ctx) ==
  Skipped(skip_field(wire_type, tag, buf, ctx), self, ctx)

encoded_len_Unit(self) == 0

clear_Unit(self) == self

\* The binding the type selects.
Types ==
  {"bool", "u32", "u64", "i32", "i64", "f32", "f64",
   "String", "VecU8", "Bytes", "ByteStr", "ByteStrUnchecked", "Unit"}

encode_raw(ty, self) ==
  CASE ty = "bool" -> encode_raw_bool(self)
    [] ty = "u32" -> encode_raw_u32(self)
    [] ty = "u64" -> encode_raw_u64(self)
    [] ty = "i32" -> encode_raw_i32(self)
    [] ty = "i64" -> encode_raw_i64(self)
    [] ty = "f32" -> encode_raw_f32(self)
    [] ty = "f64" -> encode_raw_f64(self)
    [] ty = "String" -> encode_raw_String(self)
    [] ty = "VecU8" -> encode_raw_VecU8(self)
    [] ty = "Bytes" -> encode_raw_Bytes(self)
    [] ty = "ByteStr" -> encode_raw_ByteStr(self)
    [] ty = "ByteStrUnchecked" -> encode_raw_ByteStrUnchecked(self)
    [] ty = "Unit" -> encode_raw_Unit(self)

merge_field(ty, self, tag, wire_type, buf, ctx) ==
  CASE ty = "bool" -> merge_field_bool(self, tag, wire_type, buf, ctx)
    [] ty = "u32" -> merge_field_u32(self, tag, wire_type, buf, ctx)
    [] ty = "u64" -> merge_field_u64(self, tag, wire_type, buf, ctx)
    [] ty = "i32" -> merge_field_i32(self, tag, wire_type, buf, ctx)
    [] ty = "i64" -> merge_field_i64(self, tag, wire_type, buf, ctx)
    [] ty = "f32" -> merge_field_f32(self, tag, wire_type, buf, ctx)
    [] ty = "f64" -> merge_field_f64(self, tag, wire_type, buf, ctx)
    [] ty = "String" -> merge_field_String(self, tag, wire_type, buf, ctx)
    [] ty = "VecU8" -> merge_field_VecU8(self, tag, wire_type, buf, ctx)
    [] ty = "Bytes" -> merge_field_Bytes(self, tag, wire_type, buf, ctx)
    [] ty = "ByteStr" -> merge_field_ByteStr(self, tag, wire_type, buf, ctx)
    [] ty = "ByteStrUnchecked" -> merge_field_ByteStrUnchecked(self, tag, wire_type, buf, ctx)
    [] ty = "Unit" -> merge_field_Unit(self, tag, wire_type, buf, ctx)

encoded_len(ty, self) ==
  CASE ty = "bool" -> encoded_len_bool(self)
    [] ty = "u32" -> encoded_len_u32(self)
    [] ty = "u64" -> encoded_len_u64(self)
    [] ty = "i32" -> encoded_len_i32(self)
    [] ty = "i64" -> encoded_len_i64(self)
    [] ty = "f32" -> encoded_len_f32(self)
    [] ty = "f64" -> encoded_len_f64(self)
    [] ty = "String" -> encoded_len_String(self)
    [] ty = "VecU8" -> encoded_len_VecU8(self)
    [] ty = "Bytes" -> encoded_len_Bytes(self)
    [] ty = "ByteStr" -> encoded_len_ByteStr(self)
    [] ty = "ByteStrUnchecked" -> encoded_len_ByteStrUnchecked(self)
    [] ty = "Unit" -> encoded_len_Unit(self)

clear(ty, self) ==
  CASE ty = "bool" -> clear_bool(self)
    [] ty = "u32" -> clear_u32(self)
    [] ty = "u64" -> clear_u64(self)
    [] ty = "i32" -> clear_i32(self)
    [] ty = "i64" -> clear_i64(self)
    [] ty = "f32" -> clear_f32(self)
    [] ty = "f64" -> clear_f64(self)
    [] ty = "String" -> clear_String(self)
    [] ty = "VecU8" -> clear_VecU8(self)
    [] ty = "Bytes" -> clear_Bytes(self)
    [] ty = "ByteStr" -> clear_ByteStr(self)
    [] ty = "ByteStrUnchecked" -> clear_ByteStrUnchecked(self)
    [] ty = "Unit" -> clear_Unit(self)

(***************************************************************************)
(* The values and byte streams the wire model is run on.                   *)
(***************************************************************************)
\* 0, 1, the extremes, and both sides of every varint width boundary.
Edges32 == {7, 14, 21, 28}
Edges64 == {7, 14, 21, 28, 35, 42, 49, 56, 63}

Vals32 ==
  {BitsOf({}, 32), BitsOf({1}, 32), BitsOf(1..32, 32), BitsOf({32}, 32),
   BitsOf(1..31, 32)}
    \cup {BitsOf(1..b, 32) : b \in Edges32}
    \cup {BitsOf({b + 1}, 32) : b \in Edges32}

Vals64 ==
  {BitsOf({}, 64), BitsOf({1}, 64), BitsOf(1..64, 64), BitsOf({64}, 64),
   BitsOf(1..63, 64)}
    \cup {BitsOf(1..b, 64) : b \in Edges64}
    \cup {BitsOf({b + 1}, 64) : b \in Edges64}

\* +0.0, -0.0, 1.0, -1.0, a NaN, +infinity, the least subnormal.
F32PosZero == BitsOf({}, 32)
F32NegZero == BitsOf({32}, 32)
F32NaN     == BitsOf(23..31, 32)
ValsF32 ==
  {F32PosZero, F32NegZero, BitsOf(24..30, 32), BitsOf((24..30) \cup {32}, 32),
   F32NaN, BitsOf(24..31, 32), BitsOf({1}, 32)}

F64PosZero == BitsOf({}, 64)
F64NegZero == BitsOf({64}, 64)
F64NaN     == BitsOf(52..63, 64)
ValsF64 ==
  {F64PosZero, F64NegZero, BitsOf(53..62, 64), BitsOf((53..62) \cup {64}, 64),
   F64NaN, BitsOf(53..63, 64), BitsOf({1}, 64)}

\* Characters of one, two, three and four UTF-8 bytes: A, U+00E9, U+20AC, U+1F600.
Chars == {65, 233, 8364, 128512}
Texts == SeqsUpTo(Chars, MaxChars)

\* 32 characters of four bytes: 128 bytes, the first length whose varint takes
\* two bytes.
LongText == [i \in 1..32 |-> 128512]
LongBytes == Utf8Encode(LongText)

ValsString == {Utf8Encode(t) : t \in Texts} \cup {LongBytes}

\* Arbitrary bytes, not all of them UTF-8.
ByteAlphabet == {0, 65, 255}
ValsBytes == SeqsUpTo(ByteAlphabet, MaxBytesLen) \cup {LongBytes}

Values(ty) ==
  CASE ty = "bool" -> BOOLEAN
    [] ty \in {"u32", "i32"} -> Vals32
    [] ty \in {"u64", "i64"} -> Vals64
    [] ty = "f32" -> ValsF32
    [] ty = "f64" -> ValsF64
    [] ty \in {"String", "ByteStr"} -> ValsString
    [] ty \in {"VecU8", "Bytes", "ByteStrUnchecked"} -> ValsBytes
    [] ty = "Unit" -> {<<>>}

\* A value of the type that is not its default.
Other(ty) ==
  CASE ty = "bool" -> TRUE
    [] ty \in {"u32", "i32"} -> BitsOf({2}, 32)
    [] ty \in {"u64", "i64"} -> BitsOf({2}, 64)
    [] ty = "f32" -> BitsOf(24..30, 32)
    [] ty = "f64" -> BitsOf(53..62, 64)
    [] ty \in {"String", "ByteStr", "VecU8", "Bytes", "ByteStrUnchecked"} -> <<66>>
    [] ty = "Unit" -> <<>>

\* n nested groups of field 2, well formed.
RECURSIVE NestedGroups(_)
NestedGroups(n) ==
  IF n = 0 THEN <<>> ELSE <<19>> \o NestedGroups(n - 1) \o <<20>>

\* One well-formed occurrence of a field whose tag is not 1: a varint of one
\* and of two bytes, a fixed32, a fixed64, a length-delimited payload that
\* looks like a field 1, an empty group, a group holding a field 1, a tag
\* whose key takes two bytes, and groups nested as deep as the limit allows.
UnknownFields ==
  {<<16, 5>>, <<16, 128, 1>>, <<29, 1, 2, 3, 4>>,
   <<17, 1, 2, 3, 4, 5, 6, 7, 8>>, <<18, 2, 8, 1>>, <<19, 20>>,
   <<19, 8, 1, 20>>, <<128, 1, 5>>, NestedGroups(MaxDepth)}

\* One well-formed occurrence of field 1, as a varint, a fixed32, a fixed64 and
\* a length-delimited payload.
TagOneFields ==
  {<<8, 1>>, <<13, 0, 0, 128, 63>>, <<9, 0, 0, 0, 0, 0, 0, 240, 63>>,
   <<10, 1, 67>>}

\* Malformed input: a truncated payload, an end-group with no group, a wire
\* type out of range, a truncated varint, groups nested past the limit, an
\* invalid UTF-8 payload for field 1, a group closed by another tag.
MalformedFields ==
  {<<18, 5, 1>>, <<20>>, <<23>>, <<16, 255>>, NestedGroups(MaxDepth + 1),
   <<10, 1, 255>>, <<19, 28>>}

Prefixes == {<<>>} \cup UnknownFields \cup TagOneFields \cup MalformedFields

\* The occurrences the type does not know: every tag but 1, and for () tag 1 too.
UnknownTo(ty) ==
  IF ty = "Unit" THEN UnknownFields \cup TagOneFields ELSE UnknownFields

(***************************************************************************)
(* The conformance driver (proto-conformance/src/main.rs) and what it      *)
(* calls.  The request, response and TestAllTypes messages are generated   *)
(* code that is not among the source files.                                *)
(***************************************************************************)
\* WireFormat, the requested output format.
Unspecified == 0
Protobuf    == 1
Json        == 2

NoPayload == [kind |-> "None", data |-> <<>>]

\* ConformanceRequest::decode: protobuf_payload is field 1, json_payload
\* field 2 (one oneof: the last one read stays), requested_output_format field 3.
RECURSIVE MergeRequest(_, _)
MergeRequest(request, bytes) ==
  IF bytes = <<>> THEN [ok |-> TRUE, request |-> request]
  ELSE
    LET k == decode_key(bytes)
        b == bytes_merge(k.wire_type, <<>>, k.rest, MaxDepth)
        j == string_merge(k.wire_type, <<>>, k.rest, MaxDepth)
        f == int32_merge(k.wire_type, {}, k.rest, MaxDepth)
        u == skip_field(k.wire_type, k.tag, k.rest, MaxDepth)
        bad == [ok |-> FALSE, request |-> request]
    IN  IF ~k.ok THEN bad
        ELSE IF k.tag = 1
          THEN IF ~b.ok THEN bad
               ELSE MergeRequest(
                      [request EXCEPT !.payload =
                         [kind |-> "ProtobufPayload", data |-> b.val]], b.rest)
        ELSE IF k.tag = 2
          THEN IF ~j.ok THEN bad
               ELSE MergeRequest(
                      [request EXCEPT !.payload =
                         [kind |-> "JsonPayload", data |-> j.val]], j.rest)
        ELSE IF k.tag = 3
          THEN IF ~f.ok THEN bad
               ELSE MergeRequest(
                      [request EXCEPT !.requested_output_format = Slice(f.val, 1, 8)],
                      f.rest)
        ELSE IF ~u.ok THEN bad ELSE MergeRequest(request, u.rest)

ConformanceRequest_decode(bytes) ==
  MergeRequest([requested_output_format |-> Unspecified, payload |-> NoPayload],
               bytes)

\* TestAllTypes stands behind a double.  An empty payload is the all-defaults
\* message.  Otherwise the first byte of a payload picks how the library
\* behaves on it: 0 does not decode; 1 behaves; 2 reports an encoded_len one
\* off; 3 re-encodes to bytes that do not decode; 4 does both; 5 holds a NaN,
\* so the message is not equal to its own round trip.
TestAllTypes_decode(buf) ==
  IF buf = <<>> THEN [ok |-> TRUE, value |-> <<>>]
  ELSE IF buf[1] = 0 THEN [ok |-> FALSE, value |-> <<>>]
  ELSE [ok |-> TRUE, value |-> buf]

TestAllTypes_encode(value) ==
  IF value # <<>> /\ value[1] \in {3, 4} THEN <<0>> \o Tail(value) ELSE value

TestAllTypes_encoded_len(value) ==
  IF value # <<>> /\ value[1] \in {2, 4}
    THEN Len(TestAllTypes_encode(value)) + 1
    ELSE Len(TestAllTypes_encode(value))

TestAllTypes_eq(a, b) == a = b /\ ~(a # <<>> /\ a[1] = 5)

\* The texts of the responses, one byte for each.
MessageBytes(text) ==
  CASE text = "JSON output is not supported" -> <<74>>
    [] text = "JSON input is not supported" -> <<106>>
    [] text = "no payload" -> <<110>>
    [] text = "failed to parse TestAllTypes" -> <<102>>
    [] text = "failed to parse roundtrip TestAllTypes" -> <<114>>
    [] text = "encoded length does not match actual" -> <<101>>
    [] text = "roundtrip value does not match original" -> <<118>>
    [] text = "request decode error" -> <<100>>

Skipped_(text)         == [kind |-> "Skipped", data |-> MessageBytes(text), calls |-> 0]
ParseError(text, n)    == [kind |-> "ParseError", data |-> MessageBytes(text), calls |-> n]
RuntimeError(text, n)  == [kind |-> "RuntimeError", data |-> MessageBytes(text), calls |-> n]
ProtobufPayload(b, n)  == [kind |-> "ProtobufPayload", data |-> b, calls |-> n]

\* A mutant: the payload is looked at before the requested output format.
handle_request_payload_first(request) ==
  IF request.payload.kind = "None" THEN ParseError("no payload", 0)
  ELSE IF request.payload.kind = "JsonPayload"
    THEN Skipped_("JSON input is not supported")
  ELSE IF request.requested_output_format = Json
    THEN Skipped_("JSON output is not supported")
  ELSE ProtobufPayload(request.payload.data, 2)

\* handle_request: the result, and in calls how many times it called
\* TestAllTypes::decode.
handle_request(request) ==
  IF request.requested_output_format = Json
    THEN Skipped_("JSON output is not supported")
  ELSE IF request.payload.kind = "None" THEN ParseError("no payload", 0)
  ELSE IF request.payload.kind = "JsonPayload"
    THEN Skipped_("JSON input is not supported")
  ELSE
    LET first     == TestAllTypes_decode(request.payload.data)
        all_types == first.value
        out       == TestAllTypes_encode(all_types)
        second    == TestAllTypes_decode(out)
        roundtrip == second.value
    IN  IF ~first.ok THEN ParseError("failed to parse TestAllTypes", 1)
        ELSE IF TestAllTypes_encoded_len(all_types) # Len(out)
          THEN RuntimeError("encoded length does not match actual", 1)
        ELSE IF ~second.ok
          THEN ParseError("failed to parse roundtrip TestAllTypes", 2)
        ELSE IF ~TestAllTypes_eq(all_types, roundtrip)
          THEN RuntimeError("roundtrip value does not match original", 2)
        ELSE ProtobufPayload(out, 2)

\* main, lines 47 to 50: the request is decoded and handled, or reported.
request_result(bytes) ==
  LET d == ConformanceRequest_decode(bytes)
  IN  IF d.ok THEN handle_request(d.request)
      ELSE ParseError("request decode error", 0)

\* ConformanceResponse::encode: parse_error is field 1, runtime_error field 2,
\* protobuf_payload field 3, skipped field 5.
ResultTag(kind) ==
  CASE kind = "ParseError" -> 1
    [] kind = "RuntimeError" -> 2
    [] kind = "ProtobufPayload" -> 3
    [] kind = "Skipped" -> 5

ConformanceResponse_encode(result) == bytes_encode(ResultTag(result.kind), result.data)

ConformanceResponse_encoded_len(result) ==
  bytes_encoded_len(ResultTag(result.kind), result.data)

\* Vec::resize(n, 0)
resize(v, n) ==
  IF Len(v) >= n THEN Take(v, n) ELSE v \o [i \in 1..(n - Len(v)) |-> 0]

\* LittleEndian::read_u32 and write_u32, on lengths below 2^31.
read_u32(b) == b[1] + 256 * b[2] + 65536 * b[3] + 16777216 * b[4]
write_u32(n) ==
  << n % 256, (n \div 256) % 256, (n \div 65536) % 256, (n \div 16777216) % 256 >>

\* main, lines 52 to 60: the scratch buffer holds the length prefix and then
\* the encoded response.
response_frame(bytes, result) ==
  write_u32(ConformanceResponse_encoded_len(result))
    \o Drop(resize(bytes, 4), 4)
    \o ConformanceResponse_encode(result)

\* A mutant: main returns after a parse error.
after_response_stop_on_error(result) ==
  IF result.kind = "ParseError" THEN "clean" ELSE "running"

\* main, lines 38 and 65: `loop` has no exit; after a response the process
\* runs on, whatever the response was.
after_response(result) == "running"

\* The requests the harness sends.
Payloads == {<<>>, <<0>>, <<1>>, <<2>>, <<3>>, <<4>>, <<5>>}

FormatField(format) == IF format = Unspecified THEN <<>> ELSE <<24, format>>

RequestBodies ==
  {<<>>, <<24, 1>>, <<24, 2>>, <<18, 0, 24, 1>>, <<18, 0, 24, 2>>, <<10, 5>>}
    \cup {bytes_encode(1, q) \o FormatField(Protobuf) : q \in Payloads}
    \cup {bytes_encode(1, q) \o FormatField(Json) : q \in {<<0>>, <<1>>}}

Frame(body) == write_u32(Len(body)) \o body

RECURSIVE Frames(_)
Frames(bodies) ==
  IF bodies = <<>> THEN <<>> ELSE Frame(Head(bodies)) \o Frames(Tail(bodies))

\* What may follow the last complete request: nothing, a cut length prefix, or
\* a prefix that declares more bytes than follow.
Tails == {<<>>, <<1>>, <<2, 0, 0>>, <<2, 0, 0, 0, 24>>, <<1, 0, 0, 0>>}

\* The raw buffers handed to ByteStr::from_utf8.
RawAlphabet == {65, 128, 160, 194, 224, 237}
RawInputs ==
  SeqsUpTo(RawAlphabet, MaxRawLen)
    \cup {<<255>>, <<192, 128>>, <<240, 159, 152, 128>>, <<240, 128, 128, 128>>,
          <<244, 144, 128, 128>>, <<240, 159, 152>>}

(***************************************************************************)
(* State.                                                                  *)
(***************************************************************************)
VARIABLES
  ty,       \* the wrapper type the message is an instance of
  orig,     \* the value that is encoded
  pre,      \* the bytes that precede the encoding in the stream
  start,    \* the value the message holds before the decode
  msg,      \* the message the stream is merged into
  enc,      \* encode_raw(orig) appended to a fresh buffer
  encLen,   \* encoded_len(orig)
  buf,      \* the bytes of the stream not yet consumed
  ctx,      \* the remaining recursion depth of the decoder's DecodeContext
  steps,    \* merge_field calls made so far
  last,     \* the last merge_field call: its tag, path, outcome, value before
  wpc,      \* where the encode / merge run stands
  bs,       \* the bytes of the ByteStr<Checked> at hand
  bsLive,   \* whether there is one: the last constructor returned it
  bsInput,  \* the bytes or the text the last constructor was given
  bsOp,     \* the last operation on it
  bsOk,     \* whether that operation returned Ok
  bsView,   \* what as_str() returned, since the last change
  sent,     \* the bodies of the complete requests on the input, in order
  stdin,    \* the input not yet read
  stdout,   \* the bytes written and flushed
  bytes,    \* main's scratch buffer
  result,   \* the result for the request at hand
  dpc,      \* where main stands, or stood when the process ended
  exit,     \* "running", or how the process ended
  nRead,    \* complete requests read
  nWritten  \* responses written

wireVars == <<ty, orig, pre, start, msg, enc, encLen, buf, ctx, steps, last, wpc>>
strVars == <<bs, bsLive, bsInput, bsOp, bsOk, bsView>>
drvVars == <<sent, stdin, stdout, bytes, result, dpc, exit, nRead, nWritten>>

vars == <<wireVars, strVars, drvVars>>

NoView == [seen |-> FALSE, text |-> <<>>]
NoResult == [kind |-> "None", data |-> <<>>, calls |-> 0]

\* The parts of the state a specification does not exercise stay as they are
\* here.
WireIdle ==
  /\ ty = "bool" /\ orig = FALSE /\ pre = <<>> /\ start = FALSE /\ msg = FALSE
  /\ enc = <<>> /\ encLen = 0 /\ buf = <<>> /\ ctx = MaxDepth /\ steps = 0
  /\ last = [tag |-> 0, wire_type |-> 0, route |-> "none", ok |-> TRUE]
  /\ wpc = "idle"

StrIdle ==
  /\ bs = <<>> /\ bsLive = FALSE /\ bsInput = <<>> /\ bsOp = "idle"
  /\ bsOk = TRUE /\ bsView = NoView

DrvIdle ==
  /\ sent = <<>> /\ stdin = <<>> /\ stdout = <<>> /\ bytes = <<>>
  /\ result = NoResult /\ dpc = "idle" /\ exit = "running"
  /\ nRead = 0 /\ nWritten = 0

NoCall == [tag |-> 0, wire_type |-> 0, route |-> "none", ok |-> TRUE]

InitWire ==
  /\ ty \in Types
  /\ orig \in Values(ty)
  /\ pre \in Prefixes
  /\ start \in {clear(ty, orig), Other(ty)}
  /\ msg = start
  /\ enc = <<>>
  /\ encLen = 0
  /\ buf = <<>>
  /\ ctx = MaxDepth
  /\ steps = 0
  /\ last = NoCall
  /\ wpc = "new"
  /\ StrIdle
  /\ DrvIdle

\* encoded_len is measured and the value is encoded into a fresh buffer; the
\* stream to decode is the prefix followed by the encoding.
Encode ==
  /\ wpc = "new"
  /\ encLen' = encoded_len(ty, orig)
  /\ enc' = encode_raw(ty, orig)
  /\ buf' = pre \o enc'
  /\ wpc' = "decoding"
  /\ UNCHANGED <<ty, orig, pre, start, msg, ctx, steps, last, strVars, drvVars>>

\* One turn of Message::merge's loop: a key is read and handed to merge_field
\* with a copy of the context; an error ends the decode.
MergeStep ==
  /\ wpc = "decoding"
  /\ buf # <<>>
  /\ LET k == decode_key(buf)
         r == merge_field(ty, msg, k.tag, k.wire_type, k.rest, ctx)
     IN  IF ~k.ok
           THEN /\ wpc' = "failed"
                /\ last' = [NoCall EXCEPT !.ok = FALSE]
                /\ UNCHANGED <<msg, buf, ctx, steps>>
           ELSE /\ msg' = r.val
                /\ buf' = r.rest
                /\ ctx' = r.ctx
                /\ steps' = steps + 1
                /\ last' = [tag |-> k.tag, wire_type |-> k.wire_type,
                            route |-> r.route, ok |-> r.ok]
                /\ wpc' = IF r.ok THEN "decoding" ELSE "failed"
  /\ UNCHANGED <<ty, orig, pre, start, enc, encLen, strVars, drvVars>>

\* The buffer is exhausted: the decode returns Ok.
Finish ==
  /\ wpc = "decoding"
  /\ buf = <<>>
  /\ wpc' = "done"
  /\ UNCHANGED <<ty, orig, pre, start, msg, enc, encLen, buf, ctx, steps, last,
                 strVars, drvVars>>

\* clear() resets the message to its default.
Clear ==
  /\ wpc \in {"done", "failed"}
  /\ msg' = clear(ty, msg)
  /\ wpc' = "cleared"
  /\ UNCHANGED <<ty, orig, pre, start, enc, encLen, buf, ctx, steps, last,
                 strVars, drvVars>>

NextWire == Encode \/ MergeStep \/ Finish \/ Clear

SpecWire == InitWire /\ [][NextWire]_vars

(***************************************************************************)
(* ByteStr<Checked> under its public operations.                           *)
(***************************************************************************)
InitStr ==
  /\ WireIdle
  /\ DrvIdle
  /\ bs = byte_str_default
  /\ bsLive = TRUE
  /\ bsInput = <<>>
  /\ bsOp = "default"
  /\ bsOk = TRUE
  /\ bsView = NoView

\* ByteStr::from_utf8 on any bytes: Ok with the buffer, or Err and no buffer.
FromUtf8 ==
  \E raw \in RawInputs \cup {Utf8Encode(t) : t \in Texts} :
    LET r == from_utf8(raw)
    IN  /\ bs' = IF r.ok THEN r.buf ELSE <<>>
        /\ bsLive' = r.ok
        /\ bsInput' = raw
        /\ bsOp' = "from_utf8"
        /\ bsOk' = r.ok
        /\ bsView' = NoView
        /\ UNCHANGED <<wireVars, drvVars>>

\* From<String>
FromString ==
  \E t \in Texts :
    /\ bs' = from_string(t)
    /\ bsLive' = TRUE
    /\ bsInput' = t
    /\ bsOp' = "from_string"
    /\ bsOk' = TRUE
    /\ bsView' = NoView
    /\ UNCHANGED <<wireVars, drvVars>>

\* From<&str>
FromStr ==
  \E t \in Texts :
    /\ bs' = from_str(t)
    /\ bsLive' = TRUE
    /\ bsInput' = t
    /\ bsOp' = "from_str"
    /\ bsOk' = TRUE
    /\ bsView' = NoView
    /\ UNCHANGED <<wireVars, drvVars>>

\* Default::default()
Default ==
  /\ bsOp # "default"
  /\ bs' = byte_str_default
  /\ bsLive' = TRUE
  /\ bsInput' = <<>>
  /\ bsOp' = "default"
  /\ bsOk' = TRUE
  /\ bsView' = NoView
  /\ UNCHANGED <<wireVars, drvVars>>

\* clone(): the clone is the buffer at hand from here on.
Clone ==
  /\ bsLive
  /\ bsOp # "clone"
  /\ bs' = byte_str_clone(bs)
  /\ bsOp' = "clone"
  /\ UNCHANGED <<bsLive, bsInput, bsOk, bsView, wireVars, drvVars>>

\* clear()
ClearStr ==
  /\ bsLive
  /\ bsOp # "clear"
  /\ bs' = byte_str_clear(bs)
  /\ bsOp' = "clear"
  /\ bsView' = NoView
  /\ UNCHANGED <<bsLive, bsInput, bsOk, wireVars, drvVars>>

\* as_str()
AsStr ==
  /\ bsLive
  /\ ~bsView.seen
  /\ bsView' = [seen |-> TRUE, text |-> as_str(bs)]
  /\ UNCHANGED <<bs, bsLive, bsInput, bsOp, bsOk, wireVars, drvVars>>

NextStr ==
  FromUtf8 \/ FromString \/ FromStr \/ Default \/ Clone \/ ClearStr \/ AsStr

SpecStr == InitStr /\ [][NextStr]_vars

(***************************************************************************)
(* main of the conformance driver, over an input of MaxFrames complete     *)
(* requests at most and what follows them.                                 *)
(***************************************************************************)
InitDriver ==
  /\ WireIdle
  /\ StrIdle
  /\ sent \in SeqsUpTo(RequestBodies, MaxFrames)
  /\ \E tail \in Tails : stdin = Frames(sent) \o tail
  /\ stdout = <<>>
  /\ bytes = <<>>
  /\ result = NoResult
  /\ dpc = "read_len"
  /\ exit = "running"
  /\ nRead = 0
  /\ nWritten = 0

\* Lines 39 to 41: the scratch buffer is resized to four bytes and filled
\* from the input; `expect` panics when the input ends first.
ReadLen ==
  /\ exit = "running"
  /\ dpc = "read_len"
  /\ LET b == resize(bytes, 4)
     IN  IF Len(stdin) < Len(b)
           THEN /\ stdin' = <<>>
                /\ exit' = "panic: input closed"
                /\ bytes' = stdin \o Drop(b, Len(stdin))
                /\ UNCHANGED dpc
           ELSE /\ bytes' = Take(stdin, Len(b))
                /\ stdin' = Drop(stdin, Len(b))
                /\ dpc' = "read_body"
                /\ UNCHANGED exit
  /\ UNCHANGED <<sent, stdout, result, nRead, nWritten, wireVars, strVars>>

\* Lines 42 to 45: the length is read, the buffer resized to it and filled;
\* `unwrap` panics when the input ends first.
ReadBody ==
  /\ exit = "running"
  /\ dpc = "read_body"
  /\ LET len == read_u32(bytes)
         b   == resize(bytes, len)
     IN  IF Len(stdin) < Len(b)
           THEN /\ stdin' = <<>>
                /\ exit' = "panic: unwrap on a read error"
                /\ bytes' = stdin \o Drop(b, Len(stdin))
                /\ UNCHANGED <<dpc, nRead>>
           ELSE /\ bytes' = Take(stdin, Len(b))
                /\ stdin' = Drop(stdin, Len(b))
                /\ dpc' = "handle"
                /\ nRead' = nRead + 1
                /\ UNCHANGED exit
  /\ UNCHANGED <<sent, stdout, result, nWritten, wireVars, strVars>>

\* Lines 47 to 50: the request is decoded and handled.
Handle ==
  /\ exit = "running"
  /\ dpc = "handle"
  /\ result' = request_result(bytes)
  /\ dpc' = "respond"
  /\ UNCHANGED <<sent, stdin, stdout, bytes, exit, nRead, nWritten,
                 wireVars, strVars>>

\* Lines 52 to 64: the response is framed in the scratch buffer, its length
\* is asserted, and it is written and flushed.
Respond ==
  /\ exit = "running"
  /\ dpc = "respond"
  /\ LET len == ConformanceResponse_encoded_len(result)
         b   == response_frame(bytes, result)
     IN  /\ bytes' = b
         /\ IF len + 4 # Len(b)
              THEN /\ exit' = "panic: assertion failed"
                   /\ UNCHANGED <<stdout, nWritten, dpc>>
              ELSE /\ stdout' = stdout \o b
                   /\ nWritten' = nWritten + 1
                   /\ dpc' = "read_len"
                   /\ exit' = after_response(result)
  /\ UNCHANGED <<sent, stdin, result, nRead, wireVars, strVars>>

NextDriver == ReadLen \/ ReadBody \/ Handle \/ Respond

SpecDriver == InitDriver /\ [][NextDriver]_vars

(***************************************************************************)
(* Equality of two values of a type, as the type's == decides it.          *)
(***************************************************************************)
\* An all-ones exponent and a non-zero mantissa.
IsNaNBits(v, w) ==
  LET m == IF w = 32 THEN 23 ELSE 52
  IN  /\ \A i \in (m + 1)..(w - 1) : i \in v
      /\ \E i \in 1..m : i \in v

FloatWidth(t) == IF t = "f32" THEN 32 ELSE 64

IsNaN(t, v) == t \in {"f32", "f64"} /\ IsNaNBits(v, FloatWidth(t))

IsNegZero(t, v) ==
  \/ t = "f32" /\ v = F32NegZero
  \/ t = "f64" /\ v = F64NegZero

\* f32 / f64 ==: a NaN equals nothing, the two zeros are equal.
FloatEq(a, b, w) ==
  /\ ~IsNaNBits(a, w)
  /\ ~IsNaNBits(b, w)
  /\ (a = b \/ (~FloatNeZero(a, w) /\ ~FloatNeZero(b, w)))

ValueEq(t, a, b) ==
  CASE t \in {"f32", "f64"} -> FloatEq(a, b, FloatWidth(t))
    [] t = "ByteStr" -> as_str(a) = as_str(b)
    [] t = "ByteStrUnchecked" -> as_bytes(a) = as_bytes(b)
    [] OTHER -> a = b

(***************************************************************************)
(* Claims about the wrapper bindings, checked under SpecWire.              *)
(***************************************************************************)
Encoded == wpc # "new"
Decoded == wpc \in {"done", "failed"}
FreshDecode == pre = <<>> /\ start = clear(ty, orig)

\* C1: for every wrapper type and every value, encoded_len is exactly the
\* number of bytes encode_raw appends to a fresh buffer.
C1_EncodedLenExact == Encoded => encLen = Len(enc)

\* C1 witness: -1 as an i32 is sign-extended to ten varint bytes after the key.
C1_Witness ==
  /\ Encoded
  /\ ty = "i32"
  /\ orig = BitsOf(1..32, 32)
  /\ encLen = 11
  /\ Len(enc) = 11

\* C2 as stated: decoding the encoding of any value into a default succeeds and
\* yields a value equal to it.
C2_RoundTripEqual ==
  (FreshDecode /\ Decoded) => (wpc = "done" /\ ValueEq(ty, msg, orig))

\* C2 amended: the decode succeeds; the decoded value is the encoded one bit for
\* bit, except that -0.0 comes back as +0.0; it is equal to the encoded one
\* under the type's == unless that one is a NaN, which equals nothing.
C2_RoundTripAmended ==
  (FreshDecode /\ Decoded) =>
    /\ wpc = "done"
    /\ IF IsNegZero(ty, orig) THEN msg = clear(ty, orig) ELSE msg = orig
    /\ (~IsNaN(ty, orig) => ValueEq(ty, msg, orig))

\* C2 witness: -1 as an i64 went through one field and came back.
C2_Witness ==
  /\ FreshDecode
  /\ wpc = "done"
  /\ ty = "i64"
  /\ orig = BitsOf(1..64, 64)
  /\ steps = 1
  /\ msg = orig

\* C3: a default value encodes to no bytes and has encoded_len 0; bytes are
\* emitted only for a non-default value, and then they start with the key of
\* field 1; () emits nothing.
C3_DefaultOmission ==
  Encoded =>
    /\ (orig = clear(ty, orig) => (enc = <<>> /\ encLen = 0))
    /\ (enc # <<>> => (orig # clear(ty, orig) /\ decode_key(enc).tag = 1))
    /\ (ty = "Unit" => enc = <<>>)

\* C3 witness: 0.0 as an f64 was encoded to nothing.
C3_Witness ==
  /\ Encoded
  /\ ty = "f64"
  /\ orig = F64PosZero
  /\ enc = <<>>
  /\ encLen = 0

\* C4: a well-formed field the type does not know is skipped: the call returns
\* Ok, leaves the value as it was and consumes exactly that occurrence, so
\* the field 1 that follows is merged; only tag 1 reaches the primitive merge,
\* and for () no tag does.
C4_UnknownFieldSkipped ==
  /\ (steps >= 1 /\ last.route # "none") =>
       (last.route = "merge" <=> (last.tag = 1 /\ ty # "Unit"))
  /\ (pre \in UnknownTo(ty) /\ steps >= 1) =>
       /\ wpc # "failed"
       /\ (steps = 1 /\ wpc # "cleared") =>
            (last.ok /\ last.route = "skip" /\ msg = start /\ buf = enc)
       /\ wpc = "done" => msg = (IF enc = <<>> THEN start ELSE orig)

\* C4 witness: a group holding a field 1 was skipped in front of a u32, and the
\* field 1 after it replaced the value the message held.
C4_Witness ==
  /\ ty = "u32"
  /\ pre = <<19, 8, 1, 20>>
  /\ start = Other(ty)
  /\ orig = BitsOf(1..32, 32)
  /\ wpc = "done"
  /\ steps = 2
  /\ msg = orig

C9_CheckedIsUtf8 ==
  /\ bsLive => EncodesScalars(as_bytes(bs))
  /\ bsOp = "from_utf8" =>
       /\ bsOk <=> EncodesScalars(bsInput)
       /\ bsLive <=> bsOk
       /\ bsOk => as_bytes(bs) = bsInput
  /\ (bsOp = "from_utf8" /\ bsOk /\ bsView.seen) =>
       /\ Utf8Encode(bsView.text) = bsInput
       /\ \A i \in 1..Len(bsView.text) : IsScalarValue(bsView.text[i])
  /\ (bsOp \in {"from_string", "from_str"} /\ bsView.seen) =>
       bsView.text = bsInput
  /\ (bsOp \in {"default", "clear"} /\ bsView.seen) => bsView.text = <<>>

\* from_utf8 has refused invalid bytes, and has been given a multi-byte text
\* whose as_str() was then read.
C9_Witness ==
  \/ /\ bsOp = "from_utf8" /\ ~bsOk /\ ~bsLive /\ bsInput = <<194>>
  \/ /\ bsOp = "from_utf8" /\ bsOk /\ bsView.seen
     /\ bsInput = <<240, 159, 152, 128>> /\ bsView.text = <<128512>>

(***************************************************************************)
(* The conformance driver.                                                 *)
(***************************************************************************)
\* The request in the scratch buffer, once it is read.
Request == ConformanceRequest_decode(bytes)

Handled == dpc = "respond" /\ exit = "running" /\ Request.ok

\* The request reached the first TestAllTypes::decode and it returned Ok.
FirstDecodeOk ==
  /\ Handled
  /\ Request.request.requested_output_format # Json
  /\ Request.request.payload.kind = "ProtobufPayload"
  /\ TestAllTypes_decode(Request.request.payload.data).ok

ReEncoded == TestAllTypes_encode(TestAllTypes_decode(Request.request.payload.data).value)

SizesAgree ==
  TestAllTypes_encoded_len(TestAllTypes_decode(Request.request.payload.data).value)
    = Len(ReEncoded)

RoundTripEqual ==
  /\ TestAllTypes_decode(ReEncoded).ok
  /\ TestAllTypes_eq(TestAllTypes_decode(Request.request.payload.data).value,
                     TestAllTypes_decode(ReEncoded).value)

\* The responses to the first n requests, framed.
RECURSIVE Responses(_)
Responses(n) ==
  IF n = 0 THEN <<>>
  ELSE Responses(n - 1) \o Frame(ConformanceResponse_encode(request_result(sent[n])))

\* C5: once the payload has decoded as TestAllTypes, the response is
\* successful-payload with the re-encoded bytes exactly when encoded_len
\* equals the length of the re-encoded buffer and the value decoded from the
\* re-encoded bytes equals the first one; in every other case it is
\* runtime-error.
C5_RuntimeErrorOtherwise ==
  FirstDecodeOk =>
    IF SizesAgree /\ RoundTripEqual
      THEN result.kind = "ProtobufPayload" /\ result.data = ReEncoded
      ELSE result.kind = "RuntimeError"

\* C6: a request whose requested output format is JSON is answered skipped
\* whatever its payload, a request with a JSON payload and protobuf output is
\* answered skipped, and in both cases TestAllTypes::decode is not called.
C6_JsonSkipped ==
  Handled =>
    /\ Request.request.requested_output_format = Json =>
         result.kind = "Skipped" /\ result.calls = 0
    /\ ( /\ Request.request.payload.kind = "JsonPayload"
         /\ Request.request.requested_output_format = Protobuf ) =>
         result.kind = "Skipped" /\ result.calls = 0

\* JSON output was requested with a protobuf payload that does not decode,
\* and the answer is skipped.
C6_Witness ==
  /\ Handled
  /\ Request.request.requested_output_format = Json
  /\ Request.request.payload = [kind |-> "ProtobufPayload", data |-> <<0>>]
  /\ result.kind = "Skipped"

\* C7: when the input ends where the next length prefix is read the process
\* exits cleanly, without a panic; and when fewer bytes follow a length
\* prefix than it declares the process ends, with no response for that
\* request.
C7_CleanExitAtEndOfInput ==
  /\ (exit # "running" /\ dpc = "read_len") => exit = "clean"
  /\ (exit # "running" /\ dpc = "read_body") =>
       nWritten = nRead /\ stdout = Responses(nRead)

\* C8: the output is one framed response for each complete request, in the
\* order of the requests; whenever a length prefix is about to be read every
\* request read so far has its response written and flushed; and the loop
\* does not end before every complete request is answered, whatever the
\* responses were.
C8_OneResponsePerRequest ==
  /\ stdout = Responses(nWritten)
  /\ nRead <= Len(sent)
  /\ dpc \in {"read_len", "read_body"} => nWritten = nRead
  /\ dpc \in {"handle", "respond"} => nRead = nWritten + 1
  /\ exit # "running" => nWritten = Len(sent)

\* Two requests were answered, the first with an error, and the driver is
\* back at reading a length prefix.
C8_Witness ==
  /\ Len(sent) = 2
  /\ nWritten = 2
  /\ dpc = "read_len"
  /\ request_result(sent[1]).kind \in {"ParseError", "RuntimeError", "Skipped"}
  /\ request_result(sent[2]).kind = "ProtobufPayload"

=============================================================================
